---- MODULE Spec2Model ----
(***************************************************************************)
(* State machine of src/src/App.tsx (BookNest): the React component App,   *)
(* its eight useState cells, the input handlers, the useEffect that        *)
(* triggers fetchBooks, and the asynchronous fetchBooks pipeline (search   *)
(* request, fan-out of detail requests joined by Promise.all, publish).    *)
(*                                                                         *)
(* Representation.  A JavaScript string that the code inspects character   *)
(* by character (genre, year, candidate names) is a tuple of one-character *)
(* strings, so "" is << >>.  A JavaScript value whose type varies          *)
(* (description, page counts) is a tagged record, see Str/Num/Obj.  null   *)
(* is Null.  An object's identity (=== on Book objects) is the field ref.  *)
(***************************************************************************)
EXTENDS Integers, Sequences, FiniteSets, TLC

VARIABLES
    genre,             \* useState cell, line 23
    year,              \* line 24
    books,             \* line 25
    loading,           \* line 26
    error,             \* line 27
    genreSuggestions,  \* line 28
    yearSuggestions,   \* line 29
    selectedBook,      \* line 30
    nextRun,           \* number of fetchBooks calls made so far, plus one
    pc,                \* pc[r]: where call r of fetchBooks is suspended
    query,             \* query[r]: genre and year in the URL of call r's pending search request
    fetchedBooks,      \* fetchedBooks[r]: line 37
    booksWithDetails,  \* booksWithDetails[r]: the values array Promise.all fills, line 39
    completed,         \* history: the calls that returned, in order, with their outcome
    atStart,           \* history: atStart[r] is books, and the last call that had
                       \*   published, when call r was made
    failedDetails,     \* history: the indices of call r's detail requests that rejected
    response,          \* history: response[r] lists the works of call r's search response
    lastPublished,     \* history: the last call that reached line 53 and the list it passed
    blankQuery,        \* history: fetchBooks has been called with an empty genre or year
    clickedBook        \* history: the argument of the last call of handleBookClick

vars == <<genre, year, books, loading, error, genreSuggestions, yearSuggestions,
          selectedBook, nextRun, pc, query, fetchedBooks, booksWithDetails,
          completed, atStart, failedDetails, response, lastPublished, blankQuery,
          clickedBook>>

inputVars == <<genre, year, genreSuggestions, yearSuggestions>>
fetchVars == <<books, loading, error, nextRun, pc, query, fetchedBooks,
               booksWithDetails, completed, atStart, failedDetails, response, lastPublished,
               blankQuery>>

-----------------------------------------------------------------------------
(* Bounds of the model *)

\* fetchBooks is called at most MaxRuns times in a behaviour
MaxRuns == 2

RunIds == 1..MaxRuns

-----------------------------------------------------------------------------
(* JavaScript values *)

Undefined == [t |-> "undefined"]
Null == [t |-> "null"]
Pending == [t |-> "pending"]
Str(s) == [t |-> "string", v |-> s]
Num(n) == [t |-> "number", v |-> n]
Obj(fields) == [t |-> "object", fields |-> fields]

\* o.f on a plain object whose own properties are the record o
Get(o, f) == IF f \in DOMAIN o THEN o[f] ELSE Undefined

\* v?.value
OptionalValue(v) ==
    IF v.t \in {"undefined", "null"} THEN Undefined
    ELSE IF v.t = "object" THEN Get(v.fields, "value")
    ELSE Undefined

\* ToBoolean
Truthy(v) ==
    CASE v.t = "undefined" -> FALSE
      [] v.t = "null" -> FALSE
      [] v.t = "string" -> v.v # ""
      [] v.t = "number" -> v.v # 0
      [] OTHER -> TRUE

\* a || b
Or(a, b) == IF Truthy(a) THEN a ELSE b

-----------------------------------------------------------------------------
(* Strings as tuples of characters *)

UpperCase == <<"A","B","C","D","E","F","G","H","I","J","K","L","M",
               "N","O","P","Q","R","S","T","U","V","W","X","Y","Z">>
LowerCase == <<"a","b","c","d","e","f","g","h","i","j","k","l","m",
               "n","o","p","q","r","s","t","u","v","w","x","y","z">>
Digits == <<"0","1","2","3","4","5","6","7","8","9">>

\* the lower-case letter of every upper-case letter
lowerOf ==
    [c \in {UpperCase[i] : i \in 1..Len(UpperCase)} |->
        LowerCase[CHOOSE i \in 1..Len(UpperCase) : UpperCase[i] = c]]

toLowerChar(c) == IF c \in DOMAIN lowerOf THEN lowerOf[c] ELSE c

\* String.prototype.toLowerCase
toLowerCase(s) == [i \in 1..Len(s) |-> toLowerChar(s[i])]

\* String.prototype.includes
includes(s, sub) ==
    \E k \in 0..(Len(s) - Len(sub)) : SubSeq(s, k + 1, k + Len(sub)) = sub

\* Number.prototype.toString of a non-negative integer
RECURSIVE toString(_)
toString(n) ==
    IF n < 10 THEN <<Digits[n + 1]>>
    ELSE Append(toString(n \div 10), Digits[(n % 10) + 1])

\* Array.prototype.slice(0, end)
\* mutant: the whole array is kept
sliceAll(a, end) == a

slice(a, end) == SubSeq(a, 1, IF Len(a) < end THEN Len(a) ELSE end)

-----------------------------------------------------------------------------
(* The candidate lists, lines 14-20 *)

popularGenres == <<
    <<"F","i","c","t","i","o","n">>,
    <<"F","a","n","t","a","s","y">>,
    <<"S","c","i","e","n","c","e"," ","F","i","c","t","i","o","n">>,
    <<"M","y","s","t","e","r","y">>,
    <<"T","h","r","i","l","l","e","r">>,
    <<"R","o","m","a","n","c","e">>,
    <<"H","i","s","t","o","r","i","c","a","l"," ","F","i","c","t","i","o","n">>,
    <<"N","o","n","-","f","i","c","t","i","o","n">>,
    <<"B","i","o","g","r","a","p","h","y">>,
    <<"S","e","l","f","-","h","e","l","p">>,
    <<"H","o","r","r","o","r">> >>

\* new Date().getFullYear() when the module is loaded
currentYear == 2026

RecentYearsLength == 10

recentYears == [i \in 1..RecentYearsLength |-> currentYear - (i - 1)]

-----------------------------------------------------------------------------
ErrorMessage == Str("An error occurred while fetching books. Please try again.")
NoDescription == "No description available."

\* docs.slice(0, 10)
SliceEnd == 10

-----------------------------------------------------------------------------
(* The remote services: what the search and detail endpoints hold *)

\* One entry of response.data.docs for the work with identifier k.  The
\* optional fields of Book are present for some works and absent for others.
SearchDoc(k) ==
    CASE k = 1 -> [key |-> k, title |-> "Dune", author_name |-> <<"author">>,
                   first_publish_year |-> 2020, cover_i |-> 7,
                   number_of_pages_median |-> Num(111)]
      [] k = 2 -> [key |-> k, title |-> "Emma", author_name |-> <<"a1", "a2">>,
                   first_publish_year |-> 2021]
      [] k = 3 -> [key |-> k, title |-> "Ulysses", first_publish_year |-> 2020]
      [] OTHER -> [key |-> k, title |-> "Untitled", author_name |-> <<"author">>,
                   first_publish_year |-> 2022]

\* detailsResponse.data for the work with identifier k
DetailData(k) ==
    CASE k = 1 -> [number_of_pages |-> Num(320), description |-> Str("text")]
      [] k = 2 -> [description |-> Obj([value |-> Str("text")])]
      [] k = 3 -> [number_of_pages |-> Num(150)]
      [] k = 4 -> [number_of_pages |-> Num(90), description |-> Str("")]
      [] k = 5 -> [description |-> Obj([value |-> Str("")])]
      [] OTHER -> [number_of_pages |-> Num(100), description |-> Str("text")]

\* mutant: every call receives the same objects for the same entries
ResponseDocsShared(r, keys) ==
    [i \in 1..Len(keys) |-> SearchDoc(keys[i]) @@ [ref |-> <<0, i>>]]

\* response.data.docs of call r when the server lists the works keys: fresh
\* objects, identified by the call and their index
ResponseDocs(r, keys) ==
    [i \in 1..Len(keys) |-> SearchDoc(keys[i]) @@ [ref |-> <<r, i>>]]

-----------------------------------------------------------------------------
(* Input handlers, lines 66-96 *)

\* mutant: the comparison is case-sensitive
filterGenresCaseSensitive(value) ==
    SelectSeq(popularGenres, LAMBDA g : includes(g, value))

filterGenres(value) ==
    SelectSeq(popularGenres,
              LAMBDA g : includes(toLowerCase(g), toLowerCase(value)))

filterYears(value) ==
    SelectSeq(recentYears, LAMBDA y : includes(toString(y), value))

-----------------------------------------------------------------------------
(* fetchBooks, lines 32-58 *)

\* mutant: the call empties the rendered list before the request
fetchBooksClearsList(g, y) ==
    /\ nextRun <= MaxRuns
    /\ loading' = TRUE
    /\ error' = Null
    /\ books' = <<>>
    /\ pc' = [pc EXCEPT ![nextRun] = "search"]
    /\ query' = [query EXCEPT ![nextRun] = [genre |-> g, year |-> y]]
    /\ atStart' = [atStart EXCEPT ![nextRun] =
                       [books |-> books, published |-> lastPublished.run]]
    /\ nextRun' = nextRun + 1
    /\ blankQuery' = (blankQuery \/ g = <<>> \/ y = <<>>)
    /\ UNCHANGED <<fetchedBooks, booksWithDetails, completed, failedDetails,
                   response, lastPublished>>

\* lines 33-36: up to the first await
fetchBooks(g, y) ==
    /\ nextRun <= MaxRuns
    /\ loading' = TRUE
    /\ error' = Null
    /\ pc' = [pc EXCEPT ![nextRun] = "search"]
    /\ query' = [query EXCEPT ![nextRun] = [genre |-> g, year |-> y]]
    /\ atStart' = [atStart EXCEPT ![nextRun] =
                       [books |-> books, published |-> lastPublished.run]]
    /\ nextRun' = nextRun + 1
    /\ blankQuery' = (blankQuery \/ g = <<>> \/ y = <<>>)
    /\ UNCHANGED <<books, fetchedBooks, booksWithDetails, completed, failedDetails,
                   response, lastPublished>>

\* mutant: the dependency list names genre only
useEffectGenreOnly(g, y) ==
    IF g # genre /\ g # <<>> /\ y # <<>>
    THEN fetchBooks(g, y)
    ELSE UNCHANGED fetchVars

\* lines 60-64: the effect runs after a render in which genre or year changed
useEffect(g, y) ==
    IF (g # genre \/ y # year) /\ g # <<>> /\ y # <<>>
    THEN fetchBooks(g, y)
    ELSE UNCHANGED fetchVars

\* lines 42-46: the spread copies every own property of book.  The result is
\* a new object; it keeps the field ref, since it takes the place of book in
\* the list and book itself is never rendered.
mergeDetails(book, data) ==
    [f \in DOMAIN book \cup {"number_of_pages_median", "description"} |->
        CASE f = "number_of_pages_median" -> Get(data, "number_of_pages")
          [] f = "description" ->
                Or(Or(OptionalValue(Get(data, "description")),
                      Get(data, "description")),
                   Str(NoDescription))
          [] OTHER -> book[f]]

\* mutant: the values are collected in the order the promises settle
promiseAllPush(values, i, v) ==
    [values EXCEPT ![CHOOSE j \in DOMAIN values :
                        /\ values[j] = Pending
                        /\ \A k \in 1..(j - 1) : values[k] # Pending] = v]

\* Promise.all stores the value of its i-th promise at index i
promiseAllStore(values, i, v) == [values EXCEPT ![i] = v]

\* mutant: the join resolves as soon as one promise has settled
anySettled(values) == \E i \in DOMAIN values : values[i] # Pending

allSettled(values) == \A i \in DOMAIN values : values[i] # Pending

\* mutant: only the most recently started call may publish
setBooksIfLatest(r, list) == IF r = nextRun - 1 THEN list ELSE books

\* line 53
setBooks(r, list) == list

NotStarted == [books |-> <<>>, published |-> 0]

\* the run's local state is dropped when the call returns
finish(r, ok) ==
    /\ pc' = [pc EXCEPT ![r] = "done"]
    /\ query' = [query EXCEPT ![r] = [genre |-> <<>>, year |-> <<>>]]
    /\ fetchedBooks' = [fetchedBooks EXCEPT ![r] = <<>>]
    /\ booksWithDetails' = [booksWithDetails EXCEPT ![r] = <<>>]
    /\ atStart' = [atStart EXCEPT ![r] = NotStarted]
    /\ failedDetails' = [failedDetails EXCEPT ![r] = {}]
    /\ response' = [response EXCEPT ![r] = <<>>]
    /\ completed' = Append(completed, [run |-> r, ok |-> ok])

\* mutant: the error message is set on the success path too
publishSetsError(r, keys, failed, list) ==
    /\ books' = setBooks(r, list)
    /\ loading' = FALSE
    /\ error' = ErrorMessage
    /\ lastPublished' = [run |-> r, docs |-> keys, failed |-> failed, list |-> list]
    /\ finish(r, TRUE)
    /\ UNCHANGED <<nextRun, blankQuery>>

\* lines 53 and 57
publish(r, keys, failed, list) ==
    /\ books' = setBooks(r, list)
    /\ loading' = FALSE
    /\ lastPublished' = [run |-> r, docs |-> keys, failed |-> failed, list |-> list]
    /\ finish(r, TRUE)
    /\ UNCHANGED <<error, nextRun, blankQuery>>

\* mutant: the loading flag is cleared on the success path only
catchErrorKeepsLoading(r) ==
    /\ error' = ErrorMessage
    /\ finish(r, FALSE)
    /\ UNCHANGED <<books, loading, nextRun, lastPublished, blankQuery>>

\* mutant: the catch block also clears the list
catchErrorClearsBooks(r) ==
    /\ error' = ErrorMessage
    /\ books' = <<>>
    /\ loading' = FALSE
    /\ finish(r, FALSE)
    /\ UNCHANGED <<nextRun, lastPublished, blankQuery>>

\* lines 54-57
catchError(r) ==
    /\ error' = ErrorMessage
    /\ loading' = FALSE
    /\ finish(r, FALSE)
    /\ UNCHANGED <<books, nextRun, lastPublished, blankQuery>>

\* mutant: the catch block of the detail request returns nothing
onDetailErrorDropsBook(book) == Undefined

\* lines 47-50: the value of a book's promise when its detail request rejects
onDetailError(book) == book

\* a detail promise of call r settles with value v; failed is the call's
\* rejected detail requests so far
settle(r, i, v, failed) ==
    LET values == promiseAllStore(booksWithDetails[r], i, v)
    IN  IF allSettled(values)
        THEN publish(r, response[r], failed, values)
        ELSE /\ booksWithDetails' = [booksWithDetails EXCEPT ![r] = values]
             /\ failedDetails' = [failedDetails EXCEPT ![r] = failed]
             /\ UNCHANGED <<books, loading, error, nextRun, pc, query, fetchedBooks,
                            completed, atStart, response, lastPublished, blankQuery>>

-----------------------------------------------------------------------------
(* The user's actions *)

\* mutant: typing in the genre field also clears the selection
handleGenreChangeClearsSelection(value) ==
    /\ genre' = value
    /\ genreSuggestions' = IF value # <<>> THEN filterGenres(value) ELSE <<>>
    /\ selectedBook' = Null
    /\ UNCHANGED <<year, yearSuggestions, clickedBook>>
    /\ useEffect(value, year)

\* lines 66-75, then the effect of lines 60-64
handleGenreChange(value) ==
    /\ genre' = value
    /\ genreSuggestions' = IF value # <<>> THEN filterGenres(value) ELSE <<>>
    /\ UNCHANGED <<year, yearSuggestions, selectedBook, clickedBook>>
    /\ useEffect(value, year)

\* lines 77-86, then the effect
handleYearChange(value) ==
    /\ year' = value
    /\ yearSuggestions' = IF value # <<>> THEN filterYears(value) ELSE <<>>
    /\ UNCHANGED <<genre, genreSuggestions, selectedBook, clickedBook>>
    /\ useEffect(genre, value)

\* mutant: the suggestion list stays open
selectGenreKeepsList(i) ==
    /\ i \in 1..Len(genreSuggestions)
    /\ genre' = genreSuggestions[i]
    /\ UNCHANGED <<genreSuggestions, year, yearSuggestions, selectedBook, clickedBook>>
    /\ useEffect(genreSuggestions[i], year)

\* lines 88-91 (the click on the i-th genre suggestion, line 121), then the effect
selectGenre(i) ==
    /\ i \in 1..Len(genreSuggestions)
    /\ genre' = genreSuggestions[i]
    /\ genreSuggestions' = <<>>
    /\ UNCHANGED <<year, yearSuggestions, selectedBook, clickedBook>>
    /\ useEffect(genreSuggestions[i], year)

\* lines 93-96 (line 143), then the effect
selectYear(i) ==
    /\ i \in 1..Len(yearSuggestions)
    /\ year' = toString(yearSuggestions[i])
    /\ yearSuggestions' = <<>>
    /\ UNCHANGED <<genre, genreSuggestions, selectedBook, clickedBook>>
    /\ useEffect(genre, toString(yearSuggestions[i]))

\* the submit button, lines 151-156
submit ==
    /\ fetchBooks(genre, year)
    /\ UNCHANGED <<inputVars, selectedBook, clickedBook>>

\* mutant: a click while a book is selected only clears the selection
handleBookClickClearsFirst(i) ==
    /\ i \in 1..Len(books)
    /\ selectedBook' = IF selectedBook # Null THEN Null ELSE books[i]
    /\ clickedBook' = books[i]
    /\ UNCHANGED <<inputVars, fetchVars>>

\* lines 98-100 (the click on the i-th rendered book, line 167)
handleBookClick(i) ==
    /\ i \in 1..Len(books)
    /\ selectedBook' = IF books[i] = selectedBook THEN Null ELSE books[i]
    /\ clickedBook' = books[i]
    /\ UNCHANGED <<inputVars, fetchVars>>

-----------------------------------------------------------------------------
(* The network's actions: the continuations of fetchBooks *)

\* line 36 resolves with docs listing the works keys; lines 37-41 run up to
\* the awaits of the detail requests, and line 53 when there is none
searchResolved(r, keys) ==
    /\ pc[r] = "search"
    /\ LET fetched == slice(ResponseDocs(r, keys), SliceEnd)
       IN  IF Len(fetched) = 0
           THEN publish(r, keys, {}, <<>>)
           ELSE /\ pc' = [pc EXCEPT ![r] = "details"]
                /\ query' = [query EXCEPT ![r] = [genre |-> <<>>, year |-> <<>>]]
                /\ fetchedBooks' = [fetchedBooks EXCEPT ![r] = fetched]
                /\ booksWithDetails' =
                       [booksWithDetails EXCEPT ![r] = [i \in 1..Len(fetched) |-> Pending]]
                /\ response' = [response EXCEPT ![r] = keys]
                /\ UNCHANGED <<books, loading, error, nextRun, completed,
                               atStart, failedDetails, lastPublished, blankQuery>>
    /\ UNCHANGED <<inputVars, selectedBook, clickedBook>>

\* line 36 rejects
searchRejected(r) ==
    /\ pc[r] = "search"
    /\ catchError(r)
    /\ UNCHANGED <<inputVars, selectedBook, clickedBook>>

\* line 41 resolves for the i-th book of call r
detailResolved(r, i) ==
    /\ pc[r] = "details"
    /\ i \in DOMAIN booksWithDetails[r]
    /\ booksWithDetails[r][i] = Pending
    /\ settle(r, i, mergeDetails(fetchedBooks[r][i], DetailData(fetchedBooks[r][i].key)),
              failedDetails[r])
    /\ UNCHANGED <<inputVars, selectedBook, clickedBook>>

\* mutant: a rejected detail request rejects the join, lines 54-57 run
detailRejectedFailsRun(r, i) ==
    /\ pc[r] = "details"
    /\ i \in DOMAIN booksWithDetails[r]
    /\ booksWithDetails[r][i] = Pending
    /\ catchError(r)
    /\ UNCHANGED <<inputVars, selectedBook, clickedBook>>

\* line 41 rejects for the i-th book of call r: lines 47-50
detailRejected(r, i) ==
    /\ pc[r] = "details"
    /\ i \in DOMAIN booksWithDetails[r]
    /\ booksWithDetails[r][i] = Pending
    /\ settle(r, i, onDetailError(fetchedBooks[r][i]), failedDetails[r] \cup {i})
    /\ UNCHANGED <<inputVars, selectedBook, clickedBook>>

-----------------------------------------------------------------------------
(* The environment the model explores *)

\* what the user types into the genre field
GenreInputs == { <<>>, <<"f","a","n">> }

\* what the user types into the year field
YearInputs == { <<>>, <<"2","6">> }

\* the works the search endpoint lists, in its order
Responses == { <<>>, <<1, 2, 3>>, <<5, 4>> }

Init ==
    /\ genre = <<>>
    /\ year = <<>>
    /\ books = <<>>
    /\ loading = FALSE
    /\ error = Null
    /\ genreSuggestions = <<>>
    /\ yearSuggestions = <<>>
    /\ selectedBook = Null
    /\ nextRun = 1
    /\ pc = [r \in RunIds |-> "idle"]
    /\ query = [r \in RunIds |-> [genre |-> <<>>, year |-> <<>>]]
    /\ fetchedBooks = [r \in RunIds |-> <<>>]
    /\ booksWithDetails = [r \in RunIds |-> <<>>]
    /\ completed = <<>>
    /\ atStart = [r \in RunIds |-> NotStarted]
    /\ failedDetails = [r \in RunIds |-> {}]
    /\ response = [r \in RunIds |-> <<>>]
    /\ lastPublished = [run |-> 0, docs |-> <<>>, failed |-> {}, list |-> <<>>]
    /\ blankQuery = FALSE
    /\ clickedBook = Null

Next ==
    \/ \E value \in GenreInputs : handleGenreChange(value)
    \/ \E value \in YearInputs : handleYearChange(value)
    \/ \E i \in 1..Len(genreSuggestions) : selectGenre(i)
    \/ \E i \in 1..Len(yearSuggestions) : selectYear(i)
    \/ submit
    \/ \E i \in 1..Len(books) : handleBookClick(i)
    \/ \E r \in RunIds, keys \in Responses : searchResolved(r, keys)
    \/ \E r \in RunIds : searchRejected(r)
    \/ \E r \in RunIds, i \in 1..SliceEnd : detailResolved(r, i)
    \/ \E r \in RunIds, i \in 1..SliceEnd : detailRejected(r, i)

Spec == Init /\ [][Next]_vars

\* every issued request eventually settles
Fairness ==
    \A r \in RunIds :
       /\ WF_vars((\E keys \in Responses : searchResolved(r, keys)) \/ searchRejected(r))
       /\ \A i \in 1..SliceEnd : WF_vars(detailResolved(r, i) \/ detailRejected(r, i))

\* the program without the suggestion lists and the selection
LiveNext ==
    \/ \E value \in GenreInputs : handleGenreChange(value)
    \/ \E value \in YearInputs : handleYearChange(value)
    \/ submit
    \/ \E r \in RunIds, keys \in Responses : searchResolved(r, keys)
    \/ \E r \in RunIds : searchRejected(r)
    \/ \E r \in RunIds, i \in 1..SliceEnd : detailResolved(r, i)
    \/ \E r \in RunIds, i \in 1..SliceEnd : detailRejected(r, i)

LiveSpec == Init /\ [][LiveNext]_vars /\ Fairness

-----------------------------------------------------------------------------
(* One call of fetchBooks against a search endpoint that may list more     *)
(* works than the call consumes                                            *)

LongResponse == <<6, 7, 8, 9, 10, 11, 12, 13, 14, 15, 16>>

SingleRunResponses == { <<>>, <<1, 2, 3>>, <<5, 4>>, LongResponse }

SingleRunNext ==
    \/ nextRun = 1 /\ submit
    \/ \E r \in RunIds, keys \in SingleRunResponses : searchResolved(r, keys)
    \/ \E r \in RunIds : searchRejected(r)
    \/ \E r \in RunIds, i \in 1..SliceEnd : detailResolved(r, i)
    \/ \E r \in RunIds, i \in 1..SliceEnd : detailRejected(r, i)

SingleRunSpec == Init /\ [][SingleRunNext]_vars

-----------------------------------------------------------------------------
(* The input fields under a wider range of typed text, against a search    *)
(* endpoint that finds nothing or fails                                    *)

WideGenreInputs ==
    { <<>>, <<"f","a","n">>, <<"F","I">>, <<"x">> }

WideYearInputs ==
    { <<>>, <<"2","6">>, <<"2","0","1">>, <<"x">> }

InputNext ==
    \/ \E value \in WideGenreInputs : handleGenreChange(value)
    \/ \E value \in WideYearInputs : handleYearChange(value)
    \/ \E i \in 1..Len(genreSuggestions) : selectGenre(i)
    \/ \E i \in 1..Len(yearSuggestions) : selectYear(i)
    \/ submit
    \/ \E r \in RunIds : searchResolved(r, <<>>)
    \/ \E r \in RunIds : searchRejected(r)

InputSpec == Init /\ [][InputNext]_vars

-----------------------------------------------------------------------------
(* Properties *)

InFlight(r) == pc[r] \in {"search", "details"}

\* the step in which call r of fetchBooks returns
RunReturns(r) == InFlight(r) /\ pc'[r] = "done"

\* the outcome of the call that returns in this step
ReturnsOk == completed'[Len(completed')].ok

Min(a, b) == IF a < b THEN a ELSE b

\* C1 as stated: once a fetch run has completed, and every run was triggered
\* with non-empty genre and year, the rendered list is never non-empty while
\* the error message is set.
NeverListAndError ==
    (completed # <<>> /\ ~blankQuery) => ~(Len(books) > 0 /\ error # Null)

\* C1 as amended: a fetch run that returns either publishes its list and
\* leaves the error message as it was, or sets the error message and leaves
\* the rendered list as it was, never both.
RunOutcomeExclusive ==
    [][\A r \in RunIds : RunReturns(r) =>
          \/ /\ ReturnsOk
             /\ lastPublished'.run = r
             /\ books' = lastPublished'.list
             /\ error' = error
          \/ /\ ~ReturnsOk
             /\ error' = ErrorMessage
             /\ books' = books
             /\ lastPublished' = lastPublished]_vars

\* a later run publishes its list while the error message of an earlier,
\* overlapping run is displayed
ListPublishedUnderError ==
    /\ ~blankQuery
    /\ Len(completed) = 2
    /\ ~completed[1].ok
    /\ completed[2].ok
    /\ error = ErrorMessage
    /\ Len(books) > 0

-----------------------------------------------------------------------------
\* item is the i-th entry of call r's search response listing keys, enriched or not
IsEntry(item, r, keys, i) ==
    /\ "key" \in DOMAIN item
    /\ item.key = keys[i]
    /\ item.ref = <<r, i>>
    /\ item.title = SearchDoc(keys[i]).title

\* C2: the list a run publishes holds, at every index i, the (possibly
\* enriched) i-th of the first 10 entries of the run's search response,
\* whatever the order in which its detail requests settle; while the run is
\* still waiting, every value already settled sits at the index of its entry.
OrderStable ==
    /\ \A r \in RunIds : pc[r] = "details" =>
          \A i \in DOMAIN booksWithDetails[r] :
             \/ booksWithDetails[r][i] = Pending
             \/ IsEntry(booksWithDetails[r][i], r, response[r], i)
    /\ lastPublished.run # 0 =>
          /\ Len(lastPublished.list) = Min(Len(lastPublished.docs), SliceEnd)
          /\ \A i \in 1..Len(lastPublished.list) :
                IsEntry(lastPublished.list[i], lastPublished.run, lastPublished.docs, i)

\* the detail request of the last consumed entry of a long response has
\* settled while the first entry's is still outstanding
LastDetailSettledFirst ==
    \E r \in RunIds :
       /\ pc[r] = "details"
       /\ Len(response[r]) > SliceEnd
       /\ Len(booksWithDetails[r]) = SliceEnd
       /\ booksWithDetails[r][SliceEnd] # Pending
       /\ booksWithDetails[r][1] = Pending

SameField(a, b, f) ==
    /\ (f \in DOMAIN a) = (f \in DOMAIN b)
    /\ f \in DOMAIN a => a[f] = b[f]

\* C4: when exactly one detail request of the run that published failed, the
\* rendered list has one item per consumed entry, the item of the failed
\* request is the search entry itself, and every other item keeps the entry's
\* title, authors and year and carries the detail's page count and a description.
PartialEnrichment ==
    (lastPublished.run # 0 /\ Cardinality(lastPublished.failed) = 1) =>
       LET r == lastPublished.run
           keys == lastPublished.docs
           n == Min(Len(keys), SliceEnd)
       IN  /\ n >= 1
           /\ Len(books) = n
           /\ \A i \in 1..n :
                 LET doc == ResponseDocs(r, keys)[i]
                 IN  IF i \in lastPublished.failed
                     THEN books[i] = doc
                     ELSE /\ SameField(books[i], doc, "title")
                          /\ SameField(books[i], doc, "author_name")
                          /\ SameField(books[i], doc, "first_publish_year")
                          /\ books[i].number_of_pages_median =
                                Get(DetailData(keys[i]), "number_of_pages")
                          /\ "description" \in DOMAIN books[i]
                          /\ books[i].description # Undefined

\* a list of 10 items has been published by a run with exactly one failed detail request
TenItemsOneFailed ==
    /\ lastPublished.run # 0
    /\ Cardinality(lastPublished.failed) = 1
    /\ Len(books) = SliceEnd

\* the description the claim expects for the detail payload data
ExpectedDescription(data) ==
    IF "description" \notin DOMAIN data THEN Str(NoDescription)
    ELSE IF data.description.t = "string" THEN data.description
    ELSE data.description.fields.value

\* C8: every item of the published list whose detail request succeeded has
\* as description the plain string text for a payload description text or
\* {value: text}, and the sentinel for a payload without description.
DescriptionNormalized ==
    lastPublished.run # 0 =>
       \A i \in 1..Len(books) :
          i \notin lastPublished.failed =>
             /\ "description" \in DOMAIN books[i]
             /\ books[i].description =
                   ExpectedDescription(DetailData(lastPublished.docs[i]))

-----------------------------------------------------------------------------
\* the step in which call r returns because its search request failed
SearchFails(r) == pc[r] = "search" /\ pc'[r] = "done" /\ ~ReturnsOk

\* C3 as stated: when a run's search request fails, the error message is set
\* and the rendered list is the list that was rendered when the run started.
SearchFailureKeepsStartList ==
    [][\A r \in RunIds : SearchFails(r) =>
          /\ error' = ErrorMessage
          /\ books' = atStart[r].books]_vars

\* C3 as amended: when a run's search request fails, the error message is set
\* and the rendered list is the list rendered just before the failure; it is
\* the list rendered when the run started if no run published in between.
SearchFailureKeepsCurrentList ==
    [][\A r \in RunIds : SearchFails(r) =>
          /\ error' = ErrorMessage
          /\ books' = books
          /\ lastPublished.run = atStart[r].published => books' = atStart[r].books]_vars

\* run 1 started on an empty list, run 2 published meanwhile, then run 1's
\* search failed: the error is shown over run 2's list
FailureOverLaterList ==
    /\ Len(completed) = 2
    /\ completed[1] = [run |-> 2, ok |-> TRUE]
    /\ completed[2] = [run |-> 1, ok |-> FALSE]
    /\ error = ErrorMessage
    /\ Len(books) > 0

\* C5: if every issued request eventually settles, every triggered fetch run
\* eventually returns, and whenever no run is in flight the loading flag is false.
NeverLoadingForever ==
    /\ \A r \in RunIds : InFlight(r) ~> (pc[r] = "done")
    /\ []((\A r \in RunIds : ~InFlight(r)) => loading = FALSE)

\* two overlapping runs have both returned, the second with a failed search
BothRunsReturned ==
    /\ Len(completed) = 2
    /\ ~completed[2].ok
    /\ loading = FALSE

\* C6: a triggered run is in flight until it returns (starting another run
\* cancels nothing), and once a run has returned successfully the rendered
\* list is the list of the run that returned successfully last, whichever
\* run was triggered last.
LastCompletingRunWins ==
    /\ \A r \in RunIds : r < nextRun =>
          \/ InFlight(r)
          \/ \E k \in 1..Len(completed) : completed[k].run = r
    /\ LET oks == {k \in 1..Len(completed) : completed[k].ok}
       IN  oks # {} =>
              /\ lastPublished.run = completed[CHOOSE k \in oks : \A j \in oks : j <= k].run
              /\ books = lastPublished.list

\* run 2 was triggered while run 1 was in flight and returned first; run 1
\* returned last and its list is the one rendered
EarlierRunPublishesLast ==
    /\ completed = <<[run |-> 2, ok |-> TRUE], [run |-> 1, ok |-> TRUE]>>
    /\ Len(books) > 0
    /\ books[1].ref[1] = 1

\* C7: a change of genre or year that leaves both non-empty starts a fetch
\* run for the new values; a change that leaves one of them empty starts
\* none; the submit button starts a run whatever the fields hold.
AutomaticTrigger ==
    [][LET changed == genre' # genre \/ year' # year
           full == genre' # <<>> /\ year' # <<>>
           started == /\ nextRun' = nextRun + 1
                      /\ pc'[nextRun] = "search"
                      /\ query'[nextRun] = [genre |-> genre', year |-> year']
                      /\ loading'
       IN  /\ (changed /\ full) => started
           /\ (changed /\ ~full) => nextRun' = nextRun
           /\ submit => started]_vars

\* run 1 was started by a change that filled both fields, run 2 by the
\* submit button while the genre field was empty
TriggeredBothWays ==
    /\ pc[1] = "search"
    /\ pc[2] = "search"
    /\ query[1].genre # <<>>
    /\ query[1].year # <<>>
    /\ query[2].genre = <<>>

\* a and b are the same character, or the two cases of one letter
SameLetter(a, b) ==
    \/ a = b
    \/ a \in DOMAIN lowerOf /\ lowerOf[a] = b
    \/ b \in DOMAIN lowerOf /\ lowerOf[b] = a

ContainsIgnoringCase(entry, text) ==
    \E k \in 0..(Len(entry) - Len(text)) :
       \A j \in 1..Len(text) : SameLetter(entry[k + j], text[j])

ExpectedGenres(text) ==
    IF text = <<>> THEN <<>>
    ELSE SelectSeq(popularGenres, LAMBDA g : ContainsIgnoringCase(g, text))

ExpectedYears(text) ==
    IF text = <<>> THEN <<>>
    ELSE SelectSeq(recentYears, LAMBDA y : ContainsIgnoringCase(toString(y), text))

\* C9: typing text into a field sets the field to text and its suggestion
\* list to the candidates, in candidate order, that contain text as a
\* case-insensitive substring, and to the empty list when text is empty.
SuggestionFiltering ==
    [][/\ \A v \in WideGenreInputs : handleGenreChange(v) =>
             genre' = v /\ genreSuggestions' = ExpectedGenres(v)
       /\ \A v \in WideYearInputs : handleYearChange(v) =>
             year' = v /\ yearSuggestions' = ExpectedYears(v)]_vars

\* upper-case text has matched candidates written in lower and mixed case
UpperCaseInputMatches ==
    /\ genre = <<"F","I">>
    /\ Len(genreSuggestions) = 4
    /\ year = <<"2","0","1">>
    /\ Len(yearSuggestions) = 3

\* the number a text of decimal digits denotes
RECURSIVE ParseDecimal(_)
ParseDecimal(text) ==
    IF text = <<>> THEN 0
    ELSE 10 * ParseDecimal(SubSeq(text, 1, Len(text) - 1))
         + (CHOOSE d \in 0..9 : Digits[d + 1] = text[Len(text)])

\* C10: selecting a suggestion sets its field to the chosen value and
\* empties the field's suggestion list; the other field and its suggestion
\* list stay as they were.
SelectSuggestionFrame ==
    [][/\ \A i \in 1..Len(genreSuggestions) : selectGenre(i) =>
             /\ genre' = genreSuggestions[i]
             /\ genreSuggestions' = <<>>
             /\ UNCHANGED <<year, yearSuggestions>>
       /\ \A i \in 1..Len(yearSuggestions) : selectYear(i) =>
             /\ Len(year') = 4
             /\ ParseDecimal(year') = yearSuggestions[i]
             /\ yearSuggestions' = <<>>
             /\ UNCHANGED <<genre, genreSuggestions>>]_vars

\* both fields hold a chosen suggestion and both lists are closed
BothSuggestionsChosen ==
    /\ genre = popularGenres[8]
    /\ genreSuggestions = <<>>
    /\ year = <<"2","0","1","9">>
    /\ yearSuggestions = <<>>

\* the rendered items shown as selected (line 165)
ShownSelected == { i \in 1..Len(books) : books[i] = selectedBook }

\* the step is a call of handleBookClick
BookClicked == selectedBook' # selectedBook \/ clickedBook' # clickedBook

\* C11: a click on the selected book clears the selection, a click on any
\* other rendered book makes that book the selection whether or not a book
\* was selected, so two clicks on the same book from the unselected state
\* end unselected; at most one rendered item is shown as selected.
SelectionToggles ==
    [][/\ BookClicked =>
             /\ \E i \in 1..Len(books) : clickedBook' = books[i]
             /\ selectedBook' = IF clickedBook' = selectedBook THEN Null
                                ELSE clickedBook'
       /\ Cardinality(ShownSelected) <= 1
       /\ selectedBook = Null => ShownSelected = {}]_vars

\* a second click on the selected book has cleared the selection
ToggledBackToNone ==
    /\ selectedBook = Null
    /\ \E i \in 2..Len(books) : books[i] = clickedBook

\* a click moved the selection directly from one rendered book to another
SelectionMoved ==
    /\ selectedBook # Null
    /\ \E i \in 2..Len(books) : books[i] = selectedBook

\* C12: the rendered list is the list of the last call that returned with
\* success; it changes only in the step in which a call returns with success,
\* and then to the values that call's detail requests produced; the start of
\* a call, the arrival of a search response that lists works and the settling
\* of any but the last detail request leave it unchanged.
ListChangesOnlyOnSuccess ==
    [][/\ books = lastPublished.list
       /\ books' # books =>
             \E r \in RunIds :
                /\ RunReturns(r)
                /\ ReturnsOk
                /\ Len(books') = Len(fetchedBooks[r])
                /\ \A i \in 1..Len(books') :
                      booksWithDetails[r][i] # Pending =>
                          books'[i] = booksWithDetails[r][i]
       /\ (\A r \in RunIds : ~RunReturns(r)) => books' = books]_vars

\* a later call has some detail requests settled and some outstanding while
\* the list of an earlier call is rendered
InFlightOverRenderedList ==
    \E r \in RunIds :
       /\ pc[r] = "details"
       /\ \E i, j \in DOMAIN booksWithDetails[r] :
             booksWithDetails[r][i] = Pending /\ booksWithDetails[r][j] # Pending
       /\ Len(books) > 0
       /\ lastPublished.run # r

\* the detail requests of call r that have not settled
Outstanding(r) == { i \in DOMAIN booksWithDetails[r] : booksWithDetails[r][i] = Pending }

\* no item of list is an unsettled promise or a result of a call that, by
\* where, has not returned
OnlySettledResults(list, where) ==
    \A i \in 1..Len(list) :
       /\ list[i] # Pending
       /\ where[list[i].ref[1]] = "done"

\* C13: a call passes its list to setBooks only in the step in which its
\* last outstanding detail request settles, so the rendered list never holds
\* an item of a call that still has a detail request outstanding.
AllSettleBarrier ==
    [][/\ OnlySettledResults(books, pc)
       /\ OnlySettledResults(books', pc')
       /\ \A r \in RunIds :
             (pc[r] = "details" /\ (RunReturns(r) \/ lastPublished'.run = r))
                => /\ Cardinality(Outstanding(r)) = 1
                   /\ Outstanding(r)' = {}
                   /\ RunReturns(r)
       /\ \A r \in RunIds : Outstanding(r) # {} => lastPublished.run # r]_vars

\* one detail request of a call is still outstanding after all its others
\* settled, and the rendered list is another call's
OneDetailOutstanding ==
    \E r \in RunIds :
       /\ pc[r] = "details"
       /\ Cardinality(Outstanding(r)) = 1
       /\ Len(booksWithDetails[r]) >= 3
       /\ Len(books) > 0
       /\ \A i \in 1..Len(books) : books[i].ref[1] # r

\* C14: a call whose search request succeeded returns with success, whatever
\* subset of its detail requests rejected: it publishes a list with one item
\* per consumed entry and leaves the error message as it was; no settling of
\* a detail request sets the error message.
DetailFailuresNeverFail ==
    [][\A r \in RunIds :
          pc[r] = "details" =>
             /\ error' = error
             /\ RunReturns(r) =>
                   /\ ReturnsOk
                   /\ lastPublished'.run = r
                   /\ lastPublished'.failed \subseteq 1..Len(fetchedBooks[r])
                   /\ books' = lastPublished'.list
                   /\ Len(books') = Len(fetchedBooks[r])]_vars

\* every one of ten detail requests rejected and the call published its list
\* without an error message
AllDetailsFailed ==
    /\ lastPublished.failed = 1..SliceEnd
    /\ Len(books) = SliceEnd
    /\ error = Null
    /\ ~loading

\* C15: a call consumes the first SliceEnd entries of its search response,
\* in the server's order, and issues one detail request for each of them;
\* the rendered list never has more than SliceEnd items.
AtMostTenResults ==
    /\ Len(books) <= SliceEnd
    /\ Len(books) = Min(Len(lastPublished.docs), SliceEnd)
    /\ \A r \in RunIds :
          pc[r] = "details" =>
             /\ Len(fetchedBooks[r]) = Min(Len(response[r]), SliceEnd)
             /\ \A i \in 1..Len(fetchedBooks[r]) :
                   /\ fetchedBooks[r][i].key = response[r][i]
                   /\ fetchedBooks[r][i].ref = <<r, i>>
             /\ DOMAIN booksWithDetails[r] = 1..Len(fetchedBooks[r])

\* the search response listed more than SliceEnd works and the call
\* published a list of SliceEnd items
LongResponseCut ==
    /\ Len(lastPublished.docs) > SliceEnd
    /\ Len(books) = SliceEnd
    /\ \A i \in 1..SliceEnd : books[i].key = LongResponse[i]

\* C16: a call of handleBookClick changes the selection and nothing else
\* (the fields, the suggestion lists, the rendered list, loading and error
\* stay as they were and no call of fetchBooks is made); every other step,
\* an input change or a step of a call of fetchBooks, leaves the selection
\* as it was.
SelectionIsolated ==
    [][/\ BookClicked =>
             UNCHANGED <<genre, year, genreSuggestions, yearSuggestions, books,
                         loading, error, nextRun, pc, booksWithDetails>>
       /\ (inputVars' # inputVars \/ fetchVars' # fetchVars) =>
             selectedBook' = selectedBook]_vars

\* a book of the first call's list is still the selection after the second
\* call was triggered from the fields and replaced the list
SelectionKeptAcrossRun ==
    /\ selectedBook # Null
    /\ selectedBook.ref[1] = 1
    /\ lastPublished.run = 2
    /\ genre # <<>>
    /\ year # <<>>

\* C17 as stated: the loading flag is set in every state in which a call of
\* fetchBooks has not returned, also when calls overlap.
LoadingWhileInFlight == (\E r \in RunIds : InFlight(r)) => loading

\* C18 as stated: the selection is null or an item of the rendered list.
SelectionInRenderedList ==
    selectedBook = Null \/ \E i \in 1..Len(books) : books[i] = selectedBook

\* the calls that returned with success
Published == { completed[k].run : k \in { j \in 1..Len(completed) : completed[j].ok } }

\* C18 as amended: the selection is null or an item of a list that some call
\* published; line 53 replaces the list with new objects and leaves the
\* selection as it was, so after it no rendered item is shown as selected
\* while the selection may still be an item of the replaced list.
ReplacedListShowsNoSelection ==
    [][/\ selectedBook # Null => selectedBook.ref[1] \in Published
       /\ (selectedBook # Null /\ ShownSelected = {}) =>
             selectedBook.ref[1] # lastPublished.run
       /\ lastPublished' # lastPublished =>
             /\ selectedBook' = selectedBook
             /\ ShownSelected' = {}]_vars

\* a book of the replaced list is still the selection and none of the
\* rendered items is shown as selected
StaleSelection ==
    /\ selectedBook # Null
    /\ Len(books) > 0
    /\ ShownSelected = {}

====
